---- MODULE Spec2Model ----
(***************************************************************************)
(* A model of lightlab's laboratory state (lightlab/laboratory/state.py):  *)
(* the registry of hosts, benches, instruments, devices and connections    *)
(* held by a LabState, and its hash-checked persistence to a JSON file.    *)
(***************************************************************************)
EXTENDS Integers, Sequences, FiniteSets, TLC

\* ------------------------------------------------------------------ bounds
\* Number of distinct host names the callers draw from.
NumHostNames == 2
\* Longest argument list of updateHost / updateBench / updateConnections.
MaxBatch == 2
\* Number of ports declared on the multi-port instrument.
NumPorts == 3
\* Number of LabState instances (processes) working against the one path.
NumInsts == 2

\* Longest list of instruments nested in a version-1 bench or host record.
MaxNested == 1
\* Channels and channel values of an electrical source.
NumChans == 3
MaxValue == 2

\* --------------------------------------------------------------- universes
None == [none |-> TRUE]

HostNamePool == <<"h1", "h2", "h3", "h4">>
HostNames == {HostNamePool[k] : k \in 1..NumHostNames}
BenchNames == {"b1"}
InstrNames == {"i1"}
DevNames == {"d1"}
Insts == 1..NumInsts

\* Host(name=...) and LocalHost(name=...): the class is the `local` flag.
Host(name, local) == [name |-> name, local |-> local]
Bench(name) == [name |-> name]
Instrument(name, bench, host, ports) ==
    [kind |-> "instrument", name |-> name, bench |-> bench, host |-> host, ports |-> ports]
Device(name, bench, ports) ==
    [kind |-> "device", name |-> name, bench |-> bench, ports |-> ports]

isLocalHost(h) == h.local

AllHosts == {Host(n, l) : n \in HostNames, l \in BOOLEAN}
AllBenches == {Bench(n) : n \in BenchNames}
AllPorts == 1..NumPorts
AllInstruments ==
    {Instrument(n, b, h, AllPorts) :
        n \in InstrNames, b \in AllBenches \cup {None}, h \in AllHosts \cup {None}}
AllDevices == {Device(n, b, {1}) : n \in DevNames, b \in AllBenches \cup {None}}

\* Argument lists of length 1..MaxBatch over S.
Batches(S) == UNION {[1..n -> S] : n \in 1..MaxBatch}

\* ------------------------------------------------------------------- state
VARIABLES
    labs,   \* labs[i]: the LabState object of process i
    disk,   \* the file at the shared path: NoFile or the JSON text
    backup, \* the latest backup copy made by a save: NoFile or a JSON text
    last,   \* the last call: its name, how it ended, what it logged
    sneaky, \* sneaky[i]: the _Sneaky module wrapper of process i
    saving, \* the _saveState in progress: its position and its arguments
    module, \* module[i]: what importing the module left in process i
    source  \* the ElectricalSource object, None before it is constructed

vars == <<labs, disk, backup, last, sneaky, saving, module, source>>

NoFile == [nofile |-> TRUE]
\* The file just opened with mode 'w': an empty text.
Truncated == <<>>
\* No _saveState is in progress.
Idle == [pc |-> "idle", save_backup |-> FALSE, user |-> "", dt |-> ""]
\* A file whose text is not JSON.
Garbage == <<"not", "json">>
Call(op, outcome, log) == [op |-> op, outcome |-> outcome, log |-> log]

\* ------------------------------------------------- TypedList (name-keyed list)
Names(list) == {list[k].name : k \in 1..Len(list)}
IndexOf(list, name) == CHOOSE k \in 1..Len(list) : list[k].name = name
Contains(list, x) == \E k \in 1..Len(list) : list[k] = x
\* Item assignment that appends whether or not the name is there.
SetItem_AlwaysAppend(list, x) == Append(list, x)
\* list[name] = x : overwrite the entry of that name in place, else append.
SetItem(list, x) ==
    IF x.name \in Names(list)
    THEN [list EXCEPT ![IndexOf(list, x.name)] = x]
    ELSE Append(list, x)
\* list.append(x) raises RuntimeError when the name is already in the list.
CanAppend(list, x) == x.name \notin Names(list)
\* del list[name]
DelItem(list, name) == SelectSeq(list, LAMBDA e : e.name # name)

\* ---------------------------------------------------------------- LabState
CurrentVersion == 2
\* The module-level _filename, and the path the processes share.
DefaultPath == "labstate-local.json"
SharedPath == "shared.json"

\* LabState(): four empty collections, no connections, class-level defaults
\* (__sha256__ = None, __version__ = 2), filename = _filename.
NewLabState ==
    [hosts |-> <<>>, benches |-> <<>>, connections |-> <<>>, devices |-> <<>>,
     instruments |-> <<>>, sha |-> None, version |-> CurrentVersion,
     filename |-> DefaultPath]


\* ------------------------------------------------------ default path (import)
\* The path tried first at import.
FixedPath == "/home/jupyter/labstate.json"
\* What the importing process finds at the fixed path: nothing, a directory or
\* a file, and whether it may read and write it.
Missing == [kind |-> "missing", readable |-> FALSE, writable |-> FALSE]
FixedPathStates ==
    {Missing} \cup [kind : {"directory", "file"}, readable : BOOLEAN, writable : BOOLEAN]
\* The exception of open(_filename, 'r'), "" when the file opens.
OpenForRead(fs) ==
    IF fs.kind = "missing" THEN "FileNotFoundError"
    ELSE IF ~fs.readable THEN "PermissionError"
    ELSE IF fs.kind = "directory" THEN "IsADirectoryError"
    ELSE ""
\* The module-level statements that set _filename: the fixed path is kept when
\* it opens for reading, with a warning when it is not writable; any OSError of
\* the open falls back to the local path, with its warnings.
ResolveFilename(fs) ==
    LET error == OpenForRead(fs) IN
    IF error = ""
    THEN [filename |-> FixedPath,
          log |-> IF fs.writable THEN {} ELSE {"write permission denied"}]
    ELSE [filename |-> DefaultPath,
          log |-> {"fallback"}
                  \cup (IF error = "FileNotFoundError" THEN {"not found"} ELSE {})
                  \cup (IF error = "PermissionError" THEN {"no read permission"} ELSE {})]
\* The module of a process before and after its import.
NotImported == [fixed |-> Missing, filename |-> ""]
Imported(fs) == [fixed |-> fs, filename |-> ResolveFilename(fs).filename]

\* _Sneaky(__name__): the wrapper waits for the first access to `lab`; `loads`
\* counts the calls of loadState it has made.
NewSneaky == [initializing |-> TRUE, loads |-> 0]

Init ==
    /\ labs = [i \in Insts |-> NewLabState]
    /\ disk = NoFile
    /\ backup = NoFile
    /\ last = Call("init", "ok", {})
    /\ sneaky = [i \in Insts |-> NewSneaky]
    /\ saving = Idle
    /\ module = [i \in Insts |-> Imported(Missing)]
    /\ source = None

\* ---------------------------------------------------------------- updateHost
\* localhost_name = None: no host is named by the empty string.
NoName == ""

\* First loop: the name of the last LocalHost among the stored hosts.
RECURSIVE ScanLocalhost(_, _, _)
ScanLocalhost(hosts, k, st) ==
    IF k > Len(hosts) THEN st
    ELSE ScanLocalhost(hosts, k + 1,
            IF isLocalHost(hosts[k])
            THEN [name |-> hosts[k].name,
                  log |-> IF st.name # NoName THEN st.log \cup {"duplicate localhost"}
                          ELSE st.log]
            ELSE st)

\* UpdateOneHost with the `continue` of the clash branch lost: the clashing
\* local host is warned about and stored all the same.
UpdateOneHost_NoContinue(st, new_host, old_hostnames) ==
    [hosts |-> SetItem(st.hosts, new_host),
     localhost_name |->
         IF new_host.name \in old_hostnames
               /\ new_host.name = st.localhost_name
               /\ ~isLocalHost(new_host)
         THEN NoName ELSE st.localhost_name,
     log |-> IF isLocalHost(new_host) /\ st.localhost_name # NoName
                   /\ new_host.name # st.localhost_name
             THEN st.log \cup {"localhost clash"} ELSE st.log]

\* UpdateOneHost that keeps localhost_name when the local host is overwritten
\* by a host that is not local.
UpdateOneHost_KeepsLocalhostName(st, new_host, old_hostnames) ==
    IF isLocalHost(new_host) /\ st.localhost_name # NoName
          /\ new_host.name # st.localhost_name
    THEN [st EXCEPT !.log = @ \cup {"localhost clash"}]
    ELSE [st EXCEPT !.hosts = SetItem(st.hosts, new_host)]

\* One iteration of the second loop on new_host; st = [hosts, localhost_name, log].
UpdateOneHost(st, new_host, old_hostnames) ==
    IF isLocalHost(new_host) /\ st.localhost_name # NoName
          /\ new_host.name # st.localhost_name
    THEN [st EXCEPT !.log = @ \cup {"localhost clash"}]
    ELSE [hosts |-> SetItem(st.hosts, new_host),
          localhost_name |->
              IF new_host.name \in old_hostnames
                    /\ new_host.name = st.localhost_name
                    /\ ~isLocalHost(new_host)
              THEN NoName ELSE st.localhost_name,
          log |-> st.log]

RECURSIVE UpdateHostLoop(_, _, _, _)
UpdateHostLoop(st, batch, k, old_hostnames) ==
    IF k > Len(batch) THEN st
    ELSE UpdateHostLoop(UpdateOneHost(st, batch[k], old_hostnames),
                        batch, k + 1, old_hostnames)

\* The lab and the warnings after lab.updateHost(*batch).
UpdateHostResult(lab, batch) ==
    LET scan == ScanLocalhost(lab.hosts, 1, [name |-> NoName, log |-> {}])
        end  == UpdateHostLoop([hosts |-> lab.hosts, localhost_name |-> scan.name,
                                log |-> scan.log], batch, 1, Names(lab.hosts))
    IN [lab |-> [lab EXCEPT !.hosts = end.hosts],
        outcome |-> "ok",
        log |-> IF end.localhost_name = NoName
                THEN end.log \cup {"no localhost"} ELSE end.log]

updateHost(i, batch) ==
    LET r == UpdateHostResult(labs[i], batch) IN
    /\ labs' = [labs EXCEPT ![i] = r.lab]
    /\ last' = Call("updateHost", r.outcome, r.log)
    /\ UNCHANGED <<source, module, disk, backup, sneaky, saving>>

\* --------------------------------------------------------------- updateBench
RECURSIVE UpdateBenchLoop(_, _, _)
UpdateBenchLoop(benches, batch, k) ==
    IF k > Len(batch) THEN benches
    ELSE UpdateBenchLoop(SetItem(benches, batch[k]), batch, k + 1)

UpdateBenchResult(lab, batch) ==
    [lab |-> [lab EXCEPT !.benches = UpdateBenchLoop(@, batch, 1)],
     outcome |-> "ok", log |-> {}]

updateBench(i, batch) ==
    LET r == UpdateBenchResult(labs[i], batch) IN
    /\ labs' = [labs EXCEPT ![i] = r.lab]
    /\ last' = Call("updateBench", r.outcome, r.log)
    /\ UNCHANGED <<source, module, disk, backup, sneaky, saving>>

\* ------------------------------------------------- deleteInstrumentFromName
\* deleteInstrumentFromName without its assertion: a name that matches nothing
\* is passed over.
DeleteInstrumentResult_NoAssert(lab, name) ==
    [lab |-> [lab EXCEPT !.instruments = SelectSeq(@, LAMBDA x : x.name # name)],
     outcome |-> "ok", log |-> {}]

DeleteInstrumentResult(lab, name) ==
    LET matching_instruments == SelectSeq(lab.instruments, LAMBDA x : x.name = name)
    IN  IF Len(matching_instruments) # 1
        THEN [lab |-> lab, outcome |-> "AssertionError", log |-> {}]
        ELSE [lab |-> [lab EXCEPT !.instruments = DelItem(@, name)],
              outcome |-> "ok", log |-> {}]

deleteInstrumentFromName(i, name) ==
    LET r == DeleteInstrumentResult(labs[i], name) IN
    /\ labs' = [labs EXCEPT ![i] = r.lab]
    /\ last' = Call("deleteInstrumentFromName", r.outcome, r.log)
    /\ UNCHANGED <<source, module, disk, backup, sneaky, saving>>

\* ---------------------------------------------------------- insertInstrument
\* insertInstrument with the bench registered before the instrument is appended.
InsertInstrumentResult_BenchFirst(lab, instrument) ==
    LET newBench == instrument.bench # None /\ ~Contains(lab.benches, instrument.bench)
        l1 == IF newBench THEN [lab EXCEPT !.benches = Append(@, instrument.bench)] ELSE lab
    IN  IF ~CanAppend(lab.instruments, instrument)
        THEN [lab |-> l1, outcome |-> "RuntimeError: instrument exists", log |-> {}]
        ELSE [lab |-> [l1 EXCEPT !.instruments = Append(@, instrument)],
              outcome |-> "ok", log |-> {}]

\* insertInstrument that never looks at the host of the instrument.
InsertInstrumentResult_NoHost(lab, instrument) ==
    IF ~CanAppend(lab.instruments, instrument)
    THEN [lab |-> lab, outcome |-> "RuntimeError: instrument exists", log |-> {}]
    ELSE
    LET l1 == [lab EXCEPT !.instruments = Append(@, instrument)]
        newBench == instrument.bench # None /\ ~Contains(l1.benches, instrument.bench)
    IN  IF newBench
        THEN [lab |-> [l1 EXCEPT !.benches = Append(@, instrument.bench)],
              outcome |-> "ok", log |-> {"new bench"}]
        ELSE [lab |-> l1, outcome |-> "ok", log |-> {}]

\* The lab and the outcome of insertInstrument: the append of the instrument
\* comes first, then the bench, then the host; each append may raise.
InsertInstrumentResult(lab, instrument) ==
    IF ~CanAppend(lab.instruments, instrument)
    THEN [lab |-> lab, outcome |-> "RuntimeError: instrument exists", log |-> {}]
    ELSE
    LET l1 == [lab EXCEPT !.instruments = Append(@, instrument)]
        newBench == instrument.bench # None /\ ~Contains(l1.benches, instrument.bench)
        l2 == IF newBench THEN [l1 EXCEPT !.benches = Append(@, instrument.bench)] ELSE l1
        g2 == IF newBench THEN {"new bench"} ELSE {}
        newHost == instrument.host # None /\ ~Contains(l2.hosts, instrument.host)
    IN  IF newBench /\ ~CanAppend(l1.benches, instrument.bench)
        THEN [lab |-> l1, outcome |-> "RuntimeError: bench exists", log |-> g2]
        ELSE IF newHost /\ ~CanAppend(l2.hosts, instrument.host)
        THEN [lab |-> l2, outcome |-> "RuntimeError: host exists", log |-> g2 \cup {"new host"}]
        ELSE IF newHost
        THEN [lab |-> [l2 EXCEPT !.hosts = Append(@, instrument.host)],
              outcome |-> "ok", log |-> g2 \cup {"new host"}]
        ELSE [lab |-> l2, outcome |-> "ok", log |-> g2]

insertInstrument(i, instrument) ==
    LET r == InsertInstrumentResult(labs[i], instrument) IN
    /\ labs' = [labs EXCEPT ![i] = r.lab]
    /\ last' = Call("insertInstrument", r.outcome, r.log)
    /\ UNCHANGED <<source, module, disk, backup, sneaky, saving>>

\* -------------------------------------------------------------- insertDevice
InsertDeviceResult(lab, device) ==
    IF ~CanAppend(lab.devices, device)
    THEN [lab |-> lab, outcome |-> "RuntimeError: device exists", log |-> {}]
    ELSE
    LET l1 == [lab EXCEPT !.devices = Append(@, device)]
        newBench == device.bench # None /\ ~Contains(l1.benches, device.bench)
    IN  IF newBench /\ ~CanAppend(l1.benches, device.bench)
        THEN [lab |-> l1, outcome |-> "RuntimeError: bench exists", log |-> {"new bench"}]
        ELSE IF newBench
        THEN [lab |-> [l1 EXCEPT !.benches = Append(@, device.bench)],
              outcome |-> "ok", log |-> {"new bench"}]
        ELSE [lab |-> l1, outcome |-> "ok", log |-> {}]

insertDevice(i, device) ==
    LET r == InsertDeviceResult(labs[i], device) IN
    /\ labs' = [labs EXCEPT ![i] = r.lab]
    /\ last' = Call("insertDevice", r.outcome, r.log)
    /\ UNCHANGED <<source, module, disk, backup, sneaky, saving>>

\* --------------------------------------------------------- updateConnections
\* A connection is a dict {entity: port, entity: port}: a set of two
\* (entity, port) items whose entities differ.
DevicePool == <<"d1", "d2">>
ConnEntities ==
    {Instrument("i1", None, None, AllPorts)}
        \cup {Device(DevicePool[k], None, {1}) : k \in 1..2}
\* The ports a caller may name on e: its declared ports and, on an
\* instrument, one undeclared port.
CallerPorts(e) ==
    IF e.kind = "instrument" THEN e.ports \cup {Cardinality(e.ports) + 1} ELSE e.ports
AllConnections ==
    {{<<e1, p1>>, <<e2, p2>>} :
        <<e1, p1, e2, p2>> \in
            {t \in ConnEntities \X (1..(NumPorts + 1)) \X ConnEntities \X (1..(NumPorts + 1)) :
                t[1] # t[3] /\ t[2] \in CallerPorts(t[1]) /\ t[4] \in CallerPorts(t[3])}}

\* The verification loop with its second and later connections skipped.
PortsValid_FirstOnly(batch) == \A item \in batch[1] : item[2] \in item[1].ports

\* The verification loop: every port of every connection is one of its
\* entity's ports.
PortsValid(batch) ==
    \A k \in DOMAIN batch : \A item \in batch[k] : item[2] \in item[1].ports

\* The filter dropping only a stored connection equal to the new one.
RemoveConflicting_WholeOnly(conns, connection) ==
    SelectSeq(conns, LAMBDA x : x # connection)

\* For each (k1, v1) of connection: keep the stored connections without it.
RemoveConflicting(conns, connection) ==
    SelectSeq(conns, LAMBDA x : \A item \in connection : item \notin x)

RECURSIVE RemoveLoop(_, _, _)
RemoveLoop(conns, batch, k) ==
    IF k > Len(batch) THEN conns
    ELSE RemoveLoop(RemoveConflicting(conns, batch[k]), batch, k + 1)

RECURSIVE AddLoop(_, _, _)
AddLoop(st, batch, k) ==
    IF k > Len(batch) THEN st
    ELSE AddLoop(IF ~Contains(st.conns, batch[k])
                 THEN [st EXCEPT !.conns = Append(@, batch[k])]
                 ELSE [st EXCEPT !.log = @ \cup {"connection already exists"}],
                 batch, k + 1)

UpdateConnectionsResult(lab, batch) ==
    IF ~PortsValid(batch)
    THEN [lab |-> lab, outcome |-> "RuntimeError: port not in ports",
          log |-> {"port not in ports"}]
    ELSE
    LET kept == RemoveLoop(lab.connections, batch, 1)
        end  == AddLoop([conns |-> kept,
                         log |-> IF Len(kept) < Len(lab.connections)
                                 THEN {"deleting existing connection"} ELSE {}],
                        batch, 1)
    IN [lab |-> [lab EXCEPT !.connections = end.conns], outcome |-> "ok",
        log |-> end.log]

updateConnections(i, batch) ==
    LET r == UpdateConnectionsResult(labs[i], batch) IN
    /\ labs' = [labs EXCEPT ![i] = r.lab]
    /\ last' = Call("updateConnections", r.outcome, r.log)
    /\ UNCHANGED <<source, module, disk, backup, sneaky, saving>>

\* One process wiring its entities by any sequence of updateConnections calls.
NextConn == \E batch \in Batches(AllConnections) : updateConnections(1, batch)
SpecConn == Init /\ [][NextConn]_vars

\* ------------------------------------------------------ registry specification
\* One process building its registry by any sequence of the four operations.
RegUpdateHost == \E batch \in Batches(AllHosts) : updateHost(1, batch)
RegUpdateBench == \E batch \in Batches(AllBenches) : updateBench(1, batch)
RegInsertInstrument == \E x \in AllInstruments : insertInstrument(1, x)
RegInsertDevice == \E d \in AllDevices : insertDevice(1, d)

NextReg == RegUpdateHost \/ RegUpdateBench \/ RegInsertInstrument \/ RegInsertDevice
SpecReg == Init /\ [][NextReg]_vars

\* ------------------------------------------------- serialization and digest
Users == {"alice", "bob"}
Datetimes == {"monday", "tuesday"}

\* jsonpickle's flatten of a LabState: Hashable.__getstate__ drops every
\* attribute whose name starts with "__" (sha, version, filename, ...).
CollectionKeys == {"benches", "connections", "devices", "hosts", "instruments"}
Flatten(lab) == [k \in CollectionKeys |-> lab[k]]
\* An equality that never holds.
LabEq_Never(a, b) == FALSE
\* Hashable.__eq__: two objects are equal when their flattened forms are.
LabEq(a, b) == Flatten(a) = Flatten(b)
\* Unpickler.restore: an object of the class with the document's attributes.
Restore(json_state) ==
    [k \in DOMAIN NewLabState |->
        IF k \in DOMAIN json_state THEN json_state[k] ELSE NewLabState[k]]

\* json.encode with sort_keys=True: the text lists the keys in sorted order.
KeyOrder ==
    <<"__datetime__", "__sha256__", "__user__", "__version__",
      "benches", "connections", "devices", "hosts", "instruments">>
JsonEncode(d) ==
    LET ks == SelectSeq(KeyOrder, LAMBDA k : k \in DOMAIN d)
    IN [n \in 1..Len(ks) |-> <<ks[n], d[ks[n]]>>]
JsonDecode(text) ==
    [k \in {text[n][1] : n \in 1..Len(text)} |->
        text[CHOOSE n \in 1..Len(text) : text[n][1] = k][2]]
\* dict.pop(key) and dict[key] = v
Pop(d, key) == [k \in DOMAIN d \ {key} |-> d[k]]
Put(d, key, v) == [k \in DOMAIN d \cup {key} |-> IF k = key THEN v ELSE d[k]]

\* SHA-256 has no collisions within the model: the digest names its input.
hash_sha256(string) == [sha256 |-> string]

\* __toJSON with the digest taken before the version is added.
ToJSON_HashBeforeVersion(lab, user, dt) ==
    LET json_state == Flatten(lab)
        sha == hash_sha256(JsonEncode(json_state))
    IN Put(Put(Put(Put(json_state, "__version__", lab.version),
                   "__sha256__", sha), "__user__", user), "__datetime__", dt)

\* __toJSON: flatten, add the version, add the digest of what there is so
\* far, then add the user and the time.
ToJSON(lab, user, dt) ==
    LET json_state == Put(Flatten(lab), "__version__", lab.version)
        sha == hash_sha256(JsonEncode(json_state))
    IN Put(Put(Put(json_state, "__sha256__", sha), "__user__", user),
           "__datetime__", dt)

\* ------------------------------------------------------------ patch_labstate
\* The merge without the check for a name already collected.
MergeByName_Append(list, x) == Append(list, x)

\* instruments[name].__dict__.update(instrument.__dict__), or append.
MergeByName(list, x) ==
    IF x.name \in Names(list) THEN SetItem(list, x) ELSE Append(list, x)

RECURSIVE MergeAll(_, _, _, _, _)
MergeAll(list, nested, k, field, owner) ==
    IF k > Len(nested) THEN list
    ELSE MergeAll(MergeByName(list, [nested[k] EXCEPT ![field] = owner]),
                  nested, k + 1, field, owner)

\* The loop over the version-1 benches: st = [benches, instruments, devices].
RECURSIVE PatchBenches(_, _, _)
PatchBenches(st, old_benches, k) ==
    IF k > Len(old_benches) THEN st
    ELSE LET new_bench == Bench(old_benches[k].name) IN
         PatchBenches(
            [benches |-> Append(st.benches, new_bench),
             instruments |-> MergeAll(st.instruments, old_benches[k].instruments,
                                      1, "bench", new_bench),
             devices |-> MergeAll(st.devices, old_benches[k].devices,
                                  1, "bench", new_bench)],
            old_benches, k + 1)

\* The loop over the version-1 hosts: st = [hosts, instruments].
RECURSIVE PatchHosts(_, _, _)
PatchHosts(st, old_hosts, k) ==
    IF k > Len(old_hosts) THEN st
    ELSE LET new_host == Host(old_hosts[k].name, FALSE) IN
         PatchHosts(
            [hosts |-> Append(st.hosts, new_host),
             instruments |-> MergeAll(st.instruments, old_hosts[k].instruments,
                                      1, "host", new_host)],
            old_hosts, k + 1)

HasNested(list, field) == \A k \in 1..Len(list) : field \in DOMAIN list[k]

PatchLabstate(from_version, old_lab) ==
    IF from_version # 1
    THEN [outcome |-> "NotImplementedError", lab |-> old_lab]
    ELSE IF old_lab.version # from_version
    THEN [outcome |-> "AssertionError", lab |-> old_lab]
    ELSE IF ~(/\ HasNested(old_lab.benches, "instruments")
              /\ HasNested(old_lab.benches, "devices")
              /\ HasNested(old_lab.hosts, "instruments"))
    THEN [outcome |-> "KeyError", lab |-> old_lab]
    ELSE
    LET b == PatchBenches([benches |-> <<>>, instruments |-> <<>>, devices |-> <<>>],
                          old_lab.benches, 1)
        h == PatchHosts([hosts |-> <<>>, instruments |-> b.instruments],
                        old_lab.hosts, 1)
    IN [outcome |-> "ok",
        lab |-> [NewLabState EXCEPT
                    !.instruments = h.instruments,
                    !.benches = b.benches,
                    !.devices = b.devices,
                    !.hosts = SetItem(h.hosts, Host("cassander", TRUE)),
                    !.connections = old_lab.connections]]

\* ------------------------------------------------------------------ loadState
\* The integrity check switched off.
IntegrityOk_Unchecked(sha256, json_state) == TRUE

\* sha256 == hash_sha256(json.encode(json_state)), user and time popped.
IntegrityOk(sha256, json_state) == sha256 = hash_sha256(JsonEncode(json_state))

\* The comparison of versions letting every version through.
NewerVersion_Never(version) == FALSE

\* elif version > cls.__version__
NewerVersion(version) == version > CurrentVersion

\* The loop going on to the next version after a patch that was not found.
RECURSIVE PatchLoop_GoesOn(_, _)
PatchLoop_GoesOn(lab, v) ==
    IF v >= CurrentVersion
    THEN [outcome |-> "ok", lab |-> lab, log |-> {}, steps |-> <<>>]
    ELSE LET p == PatchLabstate(v, lab) IN
         IF p.outcome \notin {"ok", "NotImplementedError"}
         THEN [outcome |-> p.outcome, lab |-> None, log |-> {}, steps |-> <<v>>]
         ELSE LET rest == PatchLoop_GoesOn(IF p.outcome = "ok" THEN p.lab ELSE lab, v + 1)
              IN [rest EXCEPT !.steps = <<v>> \o @]

\* for i in range(version, cls.__version__): a NotImplementedError ends the
\* loop and is logged; any other exception leaves loadState.  `steps` lists
\* the versions patch_labstate was called with, in the order of the calls.
RECURSIVE PatchLoop(_, _)
PatchLoop(lab, v) ==
    IF v >= CurrentVersion
    THEN [outcome |-> "ok", lab |-> lab, log |-> {}, steps |-> <<>>]
    ELSE LET p == PatchLabstate(v, lab) IN
         IF p.outcome = "NotImplementedError"
         THEN [outcome |-> "ok", lab |-> lab, log |-> {"patch not found"}, steps |-> <<v>>]
         ELSE IF p.outcome # "ok"
         THEN [outcome |-> p.outcome, lab |-> None, log |-> {}, steps |-> <<v>>]
         ELSE LET rest == PatchLoop(p.lab, v + 1)
              IN [rest EXCEPT !.steps = <<v>> \o @]

\* LabState.loadState(filename, validateHash) on the text `file`.
LoadStateResult(file, filename, validateHash) ==
    IF file = NoFile
    THEN [outcome |-> "FileNotFoundError", lab |-> None, log |-> {}, steps |-> <<>>]
    ELSE IF file \in {Garbage, Truncated}
    THEN [outcome |-> "JSONDecodeError", lab |-> None, log |-> {}, steps |-> <<>>]
    ELSE
    LET decoded == JsonDecode(file)
        json_state == Pop(Pop(Pop(decoded, "__user__"), "__datetime__"), "__sha256__")
        sha256 == decoded["__sha256__"]
        version == json_state["__version__"]
        older == IF version < CurrentVersion THEN {"older version"} ELSE {}
        restored_object ==
            [Restore(Pop(json_state, "__version__")) EXCEPT
                !.sha = sha256, !.version = version, !.filename = filename]
        patched == PatchLoop(restored_object, version)
    IN  IF validateHash /\ ~IntegrityOk(sha256, json_state)
        THEN [outcome |-> "RuntimeError: corrupted", lab |-> None, log |-> {},
              steps |-> <<>>]
        ELSE IF NewerVersion(version)
        THEN [outcome |-> "RuntimeError: newer version", lab |-> None, log |-> {},
              steps |-> <<>>]
        ELSE [outcome |-> patched.outcome, lab |-> patched.lab,
              log |-> older \cup patched.log, steps |-> patched.steps]

\* Process i replaces its lab by LabState.loadState(SharedPath).
loadState(i, validateHash) ==
    /\ \E r \in {LoadStateResult(disk, SharedPath, validateHash)} :
          /\ labs' = [labs EXCEPT ![i] = IF r.outcome = "ok" THEN r.lab ELSE @]
          /\ last' = Call("loadState", r.outcome, r.log)
    /\ UNCHANGED <<source, module, disk, backup, sneaky, saving>>

\* ------------------------------------------------------------------ saveState
\* _saveState that writes the file and leaves the recorded digest as it was.
PrivateSaveResult_DigestNotRecorded(lab, file, bak, save_backup, user, dt) ==
    LET copied == save_backup /\ file # NoFile
    IN [lab |-> lab,
        file |-> JsonEncode(ToJSON(lab, user, dt)),
        backup |-> IF copied THEN file ELSE bak,
        outcome |-> "ok",
        log |-> (IF copied THEN {"backup"} ELSE {}) \cup {"sha written"}]

\* _saveState: copy the existing file to the backup, overwrite the file,
\* record the digest just written.
PrivateSaveResult(lab, file, bak, save_backup, user, dt) ==
    LET json_state == ToJSON(lab, user, dt)
        copied == save_backup /\ file # NoFile
    IN [lab |-> [lab EXCEPT !.sha = json_state["__sha256__"]],
        file |-> JsonEncode(json_state),
        backup |-> IF copied THEN file ELSE bak,
        outcome |-> "ok",
        log |-> (IF copied THEN {"backup"} ELSE {}) \cup {"sha written"}]

\* The comparison that lets the write go ahead, always true.
DigestsMatch_Always(loaded_lab, lab) == TRUE

\* loaded_lab.__sha256__ == self.__sha256__
DigestsMatch(loaded_lab, lab) == loaded_lab.sha = lab.sha

\* saveState without the first-save branch: every failure of the load leaves
\* the call, FileNotFoundError included.
SaveStateResult_NoFirstSave(lab, file, bak, save_backup, user, dt) ==
    LET loaded == LoadStateResult(file, SharedPath, TRUE)
    IN  IF loaded.outcome # "ok"
        THEN [lab |-> lab, file |-> file, backup |-> bak,
              outcome |-> loaded.outcome, log |-> loaded.log]
        ELSE PrivateSaveResult(lab, file, bak, save_backup, user, dt)

\* saveState letting a lab without a recorded digest write over any file.
SaveStateResult_FreshWrites(lab, file, bak, save_backup, user, dt) ==
    LET loaded == LoadStateResult(file, SharedPath, TRUE)
    IN  IF loaded.outcome = "FileNotFoundError"
        THEN [PrivateSaveResult(lab, file, bak, FALSE, user, dt) EXCEPT
                 !.log = @ \cup {"first save"}]
        ELSE IF loaded.outcome # "ok"
        THEN [lab |-> lab, file |-> file, backup |-> bak,
              outcome |-> loaded.outcome, log |-> loaded.log]
        ELSE IF LabEq(loaded.lab, lab)
        THEN [lab |-> lab, file |-> file, backup |-> bak, outcome |-> "ok",
              log |-> loaded.log \cup {"no changes"}]
        ELSE IF lab.sha = None \/ DigestsMatch(loaded.lab, lab)
        THEN PrivateSaveResult(lab, file, bak, save_backup, user, dt)
        ELSE [lab |-> lab, file |-> file, backup |-> bak, outcome |-> "ok",
              log |-> loaded.log \cup {"hash mismatch, aborting save"}]

\* lab.saveState(SharedPath, save_backup) with `file` on disk.
SaveStateResult(lab, file, bak, save_backup, user, dt) ==
    LET loaded == LoadStateResult(file, SharedPath, TRUE)
        first == PrivateSaveResult(lab, file, bak, FALSE, user, dt)
        \* a lab made from scratch records its own digest before comparing
        self == IF lab.sha = None
                THEN [lab EXCEPT !.sha = ToJSON(lab, user, dt)["__sha256__"]]
                ELSE lab
        write == PrivateSaveResult(self, file, bak, save_backup, user, dt)
    IN  IF loaded.outcome = "FileNotFoundError"
        THEN [first EXCEPT !.log = @ \cup {"first save"}]
        ELSE IF loaded.outcome # "ok"
        THEN [lab |-> lab, file |-> file, backup |-> bak,
              outcome |-> loaded.outcome, log |-> loaded.log]
        ELSE IF LabEq(loaded.lab, self)
        THEN [lab |-> self, file |-> file, backup |-> bak, outcome |-> "ok",
              log |-> loaded.log \cup {"no changes"}]
        ELSE IF DigestsMatch(loaded.lab, self)
        THEN [write EXCEPT !.log = @ \cup loaded.log]
        ELSE [lab |-> self, file |-> file, backup |-> bak, outcome |-> "ok",
              log |-> loaded.log \cup {"hash mismatch, aborting save"}]

saveState(i, save_backup, user, dt) ==
    /\ \E r \in {SaveStateResult(labs[i], disk, backup, save_backup, user, dt)} :
          /\ labs' = [labs EXCEPT ![i] = r.lab]
          /\ disk' = r.file
          /\ backup' = r.backup
          /\ last' = Call("saveState", r.outcome, r.log)
    /\ UNCHANGED <<source, module, sneaky, saving>>

\* ------------------------------------------------------- store specification
\* Processes that load, mutate and save against the shared path; every call is
\* atomic.  Process i runs under the account UserOf(i).
UserOf(i) == IF i = 1 THEN "alice" ELSE "bob"
StoreInstrument == Instrument("i1", None, None, AllPorts)

StoreInsert == \E i \in Insts : insertInstrument(i, StoreInstrument)
StoreDelete == \E i \in Insts : deleteInstrumentFromName(i, "i1")
StoreBench == \E i \in Insts : updateBench(i, <<Bench("b1")>>)
StoreLoad == \E i \in Insts : loadState(i, TRUE)
StoreSave == \E i \in Insts : saveState(i, FALSE, UserOf(i), "monday")

\* The file is deleted from outside the program.
StoreRemove ==
    /\ disk # NoFile
    /\ disk' = NoFile
    /\ last' = Call("removeFile", "ok", {})
    /\ UNCHANGED <<source, module, labs, backup, sneaky, saving>>

NextStore ==
    \/ StoreInsert \/ StoreDelete \/ StoreBench \/ StoreLoad \/ StoreSave
    \/ StoreRemove
SpecStore == Init /\ [][NextStore]_vars

\* ------------------------------------------------ single-writer specification
\* Process 1 is the only writer of the shared path, which starts without a
\* file: it changes its registry, saves and loads; the others only load.
NextSolo ==
    \/ insertInstrument(1, StoreInstrument)
    \/ deleteInstrumentFromName(1, "i1")
    \/ updateBench(1, <<Bench("b1")>>)
    \/ \E save_backup \in BOOLEAN : saveState(1, save_backup, "alice", "monday")
    \/ \E i \in Insts : loadState(i, TRUE)
SpecSolo == Init /\ [][NextSolo]_vars

\* --------------------------------------------------- round-trip specification
\* Process 1 builds a registry while no file exists, saves it once, and
\* process 2 loads the file.
RTConnections ==
    {c \in AllConnections :
        PortsValid(<<c>>) /\ \E item \in c : item[1] = Device("d1", None, {1})}

RTUpdateHost == disk = NoFile /\ \E h \in AllHosts : updateHost(1, <<h>>)
RTUpdateBench == disk = NoFile /\ \E b \in AllBenches : updateBench(1, <<b>>)
RTInsertInstrument == disk = NoFile /\ \E x \in AllInstruments : insertInstrument(1, x)
RTInsertDevice == disk = NoFile /\ \E d \in AllDevices : insertDevice(1, d)
RTUpdateConnections == disk = NoFile /\ \E c \in RTConnections : updateConnections(1, <<c>>)
RTSave == disk = NoFile /\ \E u \in Users : saveState(1, TRUE, u, "monday")
RTLoad == disk # NoFile /\ loadState(2, TRUE)

NextRT ==
    \/ RTUpdateHost \/ RTUpdateBench \/ RTInsertInstrument \/ RTInsertDevice
    \/ RTUpdateConnections \/ RTSave \/ RTLoad
SpecRT == Init /\ [][NextRT]_vars

\* ----------------------------------------------------- tamper specification
\* Process 1 mutates and saves; the saved file is then edited by hand in any
\* of its parts but the digest; process 2 loads it with the hash verified.
DocIndex(file, key) == CHOOSE n \in 1..Len(file) : file[n][1] = key
DocValue(file, key) == file[DocIndex(file, key)][2]
TamperKeys == {KeyOrder[n] : n \in 1..Len(KeyOrder)} \ {"__sha256__"}
\* The values an edit may put in place of v under key.
OtherValues(key, v) ==
    IF key = "__version__" THEN {v - 1, v + 1}
    ELSE IF key = "__user__" THEN Users \ {v}
    ELSE IF key = "__datetime__" THEN Datetimes \ {v}
    ELSE IF v = <<>> THEN {<<[name |-> "edited"]>>} ELSE {<<>>}
\* The texts that differ from file in exactly the keys of K.
RECURSIVE EditedFrom(_, _, _)
EditedFrom(file, K, n) ==
    IF n > Len(file) THEN {<<>>}
    ELSE LET here == IF file[n][1] \in K
                     THEN {<<file[n][1], w>> : w \in OtherValues(file[n][1], file[n][2])}
                     ELSE {file[n]}
         IN {<<h>> \o r : h \in here, r \in EditedFrom(file, K, n + 1)}
Edited(file, K) == EditedFrom(file, K, 1)

Tamper ==
    /\ last.op = "saveState" /\ "sha written" \in last.log
    /\ \E K \in (SUBSET TamperKeys) \ {{}} : \E t \in Edited(disk, K) :
          /\ disk' = t
          /\ last' = Call("tamper", "ok", K)
    /\ UNCHANGED <<source, module, labs, backup, sneaky, saving>>

TamperInsert == insertInstrument(1, StoreInstrument)
TamperBench == updateBench(1, <<Bench("b1")>>)
TamperSave == \E u \in Users, dt \in Datetimes : saveState(1, FALSE, u, dt)
TamperLoad == loadState(2, TRUE)

NextTamper == TamperInsert \/ TamperBench \/ TamperSave \/ Tamper \/ TamperLoad
SpecTamper == Init /\ [][NextTamper]_vars

\* ------------------------------------------------------ legacy specification
\* The file at the shared path was written by another release of lightlab: its
\* document carries any version from 0 to one past the current one and either
\* the version-1 layout (instruments and devices nested in the bench records,
\* instruments nested in the host records, no top-level lists of them) or the
\* current layout.  A process then loads it.
LegacyVersions == 0..(CurrentVersion + 1)
V1InstrNames == {"i1", "i2"}
V1BenchNames == {"b1", "b2"}
V1HostNames == {"h1", "cassander"}
V1Instruments == {Instrument(n, None, None, {1}) : n \in V1InstrNames}
V1Devices == {Device(n, None, {1}) : n \in DevNames}
Nested(S) == UNION {[1..n -> S] : n \in 0..MaxNested}
V1Bench(name, instruments, devices) ==
    [name |-> name, instruments |-> instruments, devices |-> devices]
V1Host(name, instruments) == [name |-> name, local |-> FALSE, instruments |-> instruments]
V1Benches ==
    {V1Bench(n, xs, ds) : n \in V1BenchNames, xs \in Nested(V1Instruments), ds \in Nested(V1Devices)}
V1Hosts == {V1Host(n, xs) : n \in V1HostNames, xs \in Nested(V1Instruments)}
V1BenchLists ==
    {<<>>} \cup {<<b>> : b \in V1Benches}
           \cup {<<b, c>> : b \in {x \in V1Benches : x.name = "b1"},
                            c \in {x \in V1Benches : x.name = "b2"}}
V1HostLists == {<<>>} \cup {<<h>> : h \in V1Hosts}
V1Contents ==
    {[benches |-> bs, hosts |-> hs, connections |-> <<>>] :
        bs \in V1BenchLists, hs \in V1HostLists}
V2Contents ==
    {Flatten(NewLabState),
     Flatten([NewLabState EXCEPT !.instruments = <<StoreInstrument>>,
                                 !.benches = <<Bench("b1")>>,
                                 !.hosts = <<Host("h1", TRUE)>>])}
\* The document another release wrote: __toJSON with that release's version.
LegacyDoc(version, content, user, dt) ==
    LET json_state == Put(content, "__version__", version)
        sha == hash_sha256(JsonEncode(json_state))
    IN JsonEncode(Put(Put(Put(json_state, "__sha256__", sha), "__user__", user),
                      "__datetime__", dt))

LegacyFile ==
    /\ disk = NoFile
    /\ \E version \in LegacyVersions : \E content \in V1Contents \cup V2Contents :
          disk' = LegacyDoc(version, content, "alice", "monday")
    /\ last' = Call("legacyFile", "ok", {})
    /\ UNCHANGED <<source, module, labs, backup, sneaky, saving>>
LegacyLoad == disk # NoFile /\ \E validateHash \in BOOLEAN : loadState(1, validateHash)

NextLegacy == LegacyFile \/ LegacyLoad
SpecLegacy == Init /\ [][NextLegacy]_vars

\* ------------------------------------------------------------ deferred loader
\* The exceptions of loadState that the module's __init__ catches.
CaughtByInit == {"FileNotFoundError", "JSONDecodeError"}

\* The wrapper loading on every access.
AccessResult_Eager(sn, lab, file) ==
    LET r == LoadStateResult(file, DefaultPath, TRUE)
    IN [sneaky |-> [initializing |-> FALSE, loads |-> sn.loads + 1],
        lab |-> IF r.outcome = "ok" THEN r.lab ELSE NewLabState,
        outcome |-> "ok", log |-> r.log]

\* _Sneaky.__getattribute__("lab"): the first access clears `initializing` and
\* runs the module's __init__, which loads from _filename and starts a new
\* LabState when the load raised an OSError or a JSONDecodeError; any other
\* exception leaves __init__ and the access, module.lab staying None.  Every
\* access then returns module.lab.
AccessResult(sn, lab, file) ==
    IF sn.initializing
    THEN LET r == LoadStateResult(file, DefaultPath, TRUE)
             empty_lab == r.outcome \in CaughtByInit
         IN [sneaky |-> [initializing |-> FALSE, loads |-> sn.loads + 1],
             lab |-> IF r.outcome = "ok" THEN r.lab
                     ELSE IF empty_lab THEN NewLabState ELSE lab,
             outcome |-> IF empty_lab THEN "ok" ELSE r.outcome,
             log |-> r.log \cup (IF empty_lab THEN {r.outcome, "starting fresh"} ELSE {})]
    ELSE [sneaky |-> sn, lab |-> lab, outcome |-> "ok", log |-> {}]

\* Process i evaluates `state.lab`.
access(i) ==
    /\ \E r \in {AccessResult(sneaky[i], labs[i], disk)} :
          /\ sneaky' = [sneaky EXCEPT ![i] = r.sneaky]
          /\ labs' = [labs EXCEPT ![i] = r.lab]
          /\ last' = Call("lab", r.outcome, r.log)
    /\ UNCHANGED <<source, module, disk, backup, saving>>

\* Each process has imported the module (`lab = None`); a file of an earlier
\* session, sound or not, may lie at the default path; the processes access
\* `lab`, and once they hold a LabState they change and save it.
InitSneaky ==
    /\ labs = [i \in Insts |-> None]
    /\ disk = NoFile
    /\ backup = NoFile
    /\ last = Call("init", "ok", {})
    /\ sneaky = [i \in Insts |-> NewSneaky]
    /\ saving = Idle
    /\ module = [i \in Insts |-> Imported(Missing)]
    /\ source = None

SneakyFiles ==
    {Garbage} \cup {LegacyDoc(v, c, "alice", "monday") :
                       v \in {CurrentVersion, CurrentVersion + 1}, c \in V2Contents}
SneakyFile ==
    /\ disk = NoFile
    /\ \E file \in SneakyFiles : disk' = file
    /\ last' = Call("sneakyFile", "ok", {})
    /\ UNCHANGED <<source, module, labs, backup, sneaky, saving>>
SneakyAccess == \E i \in Insts : access(i)
SneakyBench == \E i \in Insts : labs[i] # None /\ updateBench(i, <<Bench("b1")>>)
SneakySave == \E i \in Insts : labs[i] # None /\ saveState(i, FALSE, UserOf(i), "monday")

NextSneaky == SneakyFile \/ SneakyAccess \/ SneakyBench \/ SneakySave
SpecSneaky == InitSneaky /\ [][NextSneaky]_vars

\* ------------------------------------------------------- import of the module
\* Process i imports lightlab.laboratory.state while the fixed path is as fs.
importModule(i, fs) ==
    /\ module[i] = NotImported
    /\ module' = [module EXCEPT ![i] = Imported(fs)]
    /\ last' = Call("import", "ok", ResolveFilename(fs).log)
    /\ UNCHANGED <<source, labs, disk, backup, sneaky, saving>>

\* Process i, having imported the module, builds LabState(): no __filename__
\* is set, so its filename property answers the module's _filename.
newLabState(i) ==
    /\ module[i] # NotImported /\ labs[i] = None
    /\ labs' = [labs EXCEPT ![i] = [NewLabState EXCEPT !.filename = module[i].filename]]
    /\ last' = Call("LabState", "ok", {})
    /\ UNCHANGED <<source, module, disk, backup, sneaky, saving>>

\* No process has imported the module; each imports it once, whatever lies at
\* the fixed path for it, then builds its LabState and registers a bench.
InitPath ==
    /\ labs = [i \in Insts |-> None]
    /\ disk = NoFile
    /\ backup = NoFile
    /\ last = Call("init", "ok", {})
    /\ sneaky = [i \in Insts |-> NewSneaky]
    /\ saving = Idle
    /\ module = [i \in Insts |-> NotImported]
    /\ source = None

NextPath ==
    \/ \E i \in Insts, fs \in FixedPathStates : importModule(i, fs)
    \/ \E i \in Insts : newLabState(i)
    \/ \E i \in Insts : labs[i] # None /\ updateBench(i, <<Bench("b1")>>)
SpecPath == InitPath /\ [][NextPath]_vars

\* ----------------------------------------------------------- ElectricalSource
\* The channels a caller may name and the values it may ask for.
ChanPool == 0..(NumChans - 1)
ChanValues == 0..MaxValue
\* The arguments of setChannelTuning: a dict {channel: value}, or something
\* that is not a dict.
ChanValDicts == UNION {[chans -> ChanValues] : chans \in SUBSET ChanPool}
TuningArgs ==
    {[isDict |-> TRUE, items |-> d] : d \in ChanValDicts}
        \cup {[isDict |-> FALSE, items |-> <<>>]}
\* dict.update: the keys of both, the values of `items` where it has the key.
DictUpdate(stateDict, items) ==
    [ch \in DOMAIN stateDict \cup DOMAIN items |->
        IF ch \in DOMAIN items THEN items[ch] ELSE stateDict[ch]]

\* ElectricalSource(useChans) of a class with the given maxChannel (`limited`
\* false: maxChannel is None): every channel at 0, or the Exception.
NewSourceResult(useChans, limited, maxChannel) ==
    IF limited /\ \E ch \in useChans : ch > maxChannel - 1
    THEN [source |-> None, outcome |-> "Exception"]
    ELSE [source |-> [useChans |-> useChans, stateDict |-> [ch \in useChans |-> 0]],
          outcome |-> "ok"]

\* setChannelTuning updating the state without looking at the channels.
SetChannelTuningResult_Unchecked(stateDict, arg) ==
    [stateDict |-> DictUpdate(stateDict, arg.items), outcome |-> "ok"]

\* setChannelTuning: every channel of the dict is checked before the state
\* is touched.
SetChannelTuningResult(stateDict, arg) ==
    IF ~arg.isDict
    THEN [stateDict |-> stateDict, outcome |-> "TypeError"]
    ELSE IF \E chan \in DOMAIN arg.items : chan \notin DOMAIN stateDict
    THEN [stateDict |-> stateDict, outcome |-> "ChannelError"]
    ELSE [stateDict |-> DictUpdate(stateDict, arg.items), outcome |-> "ok"]

\* off: setChannelTuning with 0 for every channel of the state.
OffResult(stateDict) ==
    SetChannelTuningResult(stateDict,
        [isDict |-> TRUE, items |-> [ch \in DOMAIN stateDict |-> 0]])

newSource(useChans, limited, maxChannel) ==
    /\ source = None
    /\ \E r \in {NewSourceResult(useChans, limited, maxChannel)} :
          /\ source' = r.source
          /\ last' = Call("ElectricalSource", r.outcome, {})
    /\ UNCHANGED <<labs, disk, backup, sneaky, saving, module>>

setChannelTuning(arg) ==
    /\ source # None
    /\ \E r \in {SetChannelTuningResult(source.stateDict, arg)} :
          /\ source' = [source EXCEPT !.stateDict = r.stateDict]
          /\ last' = Call("setChannelTuning", r.outcome, {})
    /\ UNCHANGED <<labs, disk, backup, sneaky, saving, module>>

off ==
    /\ source # None
    /\ \E r \in {OffResult(source.stateDict)} :
          /\ source' = [source EXCEPT !.stateDict = r.stateDict]
          /\ last' = Call("off", r.outcome, {})
    /\ UNCHANGED <<labs, disk, backup, sneaky, saving, module>>

\* A source is constructed once, on any channels, then tuned and switched off
\* in any order.
NextSource ==
    \/ \E useChans \in SUBSET ChanPool : \E limited \in BOOLEAN :
       \E maxChannel \in 1..NumChans : newSource(useChans, limited, maxChannel)
    \/ \E arg \in TuningArgs : setChannelTuning(arg)
    \/ off
SpecSource == Init /\ [][NextSource]_vars

\* ------------------------------------------------------- _saveState by steps
\* Process 1 saves step by step: saveState up to its call of _saveState, then
\* the copy to the backup, the opening of the target for writing, and the
\* write.  Whole calls of process 2 may come between the steps; process 1
\* itself does nothing else until its save has returned.

\* The backup left without a copy.
BackupCopy_Never(file, bak, save_backup) == bak

\* if save_backup: if filepath.exists(): shutil.copy2(filepath, filepath_backup)
BackupCopy(file, bak, save_backup) ==
    IF save_backup /\ file # NoFile THEN file ELSE bak

\* saveState: load the file and decide; on the two writing branches go on to
\* _saveState (the first save without a backup), else return.
saveStateCall(save_backup, user, dt) ==
    /\ saving.pc = "idle"
    /\ \E r \in {SaveStateResult(labs[1], disk, backup, save_backup, user, dt)} :
       \E writes \in {"sha written" \in r.log} : \E first \in {"first save" \in r.log} :
          /\ labs' = [labs EXCEPT ![1] =
                         IF ~writes THEN r.lab
                         ELSE IF first THEN @
                         ELSE [@ EXCEPT !.sha = DocValue(disk, "__sha256__")]]
          /\ saving' = IF writes
                       THEN [pc |-> "copy", save_backup |-> save_backup /\ ~first,
                             user |-> user, dt |-> dt]
                       ELSE saving
          /\ last' = IF writes
                     THEN Call("saveState", "running", r.log \ {"sha written", "backup"})
                     ELSE Call("saveState", r.outcome, r.log)
    /\ UNCHANGED <<source, module, disk, backup, sneaky>>

copyBackup ==
    /\ saving.pc = "copy"
    /\ backup' = BackupCopy(disk, backup, saving.save_backup)
    /\ saving' = [saving EXCEPT !.pc = "open"]
    /\ last' = Call("_saveState", "copy", {})
    /\ UNCHANGED <<source, module, labs, disk, sneaky>>

\* The opening of the target comparing the digests once more and giving up
\* when the file is no longer the one the save had checked.
openTarget_ChecksAgain ==
    /\ saving.pc = "open"
    /\ IF disk # NoFile /\ DocValue(disk, "__sha256__") # labs[1].sha
       THEN /\ disk' = disk
            /\ saving' = Idle
            /\ last' = Call("saveState", "ok", {"hash mismatch, aborting save"})
       ELSE /\ disk' = Truncated
            /\ saving' = [saving EXCEPT !.pc = "write"]
            /\ last' = Call("_saveState", "open", {})
    /\ UNCHANGED <<source, module, labs, backup, sneaky>>

\* filepath.touch(); open(filepath, 'w')
openTarget ==
    /\ saving.pc = "open"
    /\ disk' = Truncated
    /\ saving' = [saving EXCEPT !.pc = "write"]
    /\ last' = Call("_saveState", "open", {})
    /\ UNCHANGED <<source, module, labs, backup, sneaky>>

\* file.write(json.encode(json_state)); self.__sha256__ = json_state["__sha256__"]
writeTarget ==
    /\ saving.pc = "write"
    /\ \E json_state \in {ToJSON(labs[1], saving.user, saving.dt)} :
          /\ disk' = JsonEncode(json_state)
          /\ labs' = [labs EXCEPT ![1].sha = json_state["__sha256__"]]
    /\ saving' = Idle
    /\ last' = Call("saveState", "ok", {"sha written"})
    /\ UNCHANGED <<source, module, backup, sneaky>>

NextBackup ==
    \/ \E save_backup \in BOOLEAN : \E dt \in Datetimes :
          saveStateCall(save_backup, UserOf(1), dt)
    \/ copyBackup \/ openTarget \/ writeTarget
    \/ (saving.pc = "idle" /\ insertInstrument(1, StoreInstrument))
    \/ (saving.pc = "idle" /\ updateBench(1, <<Bench("b1")>>))
    \/ insertInstrument(2, StoreInstrument)
    \/ loadState(2, TRUE)
    \/ saveState(2, FALSE, UserOf(2), "monday")
SpecBackup == Init /\ [][NextBackup]_vars

\* ------------------------------------------------------- order specification
\* Two processes register hosts and connections one at a time, each in the
\* order it likes.
NextOrder ==
    \/ \E i \in Insts : \E n \in HostNames : updateHost(i, <<Host(n, FALSE)>>)
    \/ \E i \in Insts : \E k \in 1..2 :
          updateConnections(i, <<{<<Instrument("i1", None, None, AllPorts), k>>,
                                  <<Device(DevicePool[k], None, {1}), 1>>}>>)
SpecOrder == Init /\ [][NextOrder]_vars

\* ------------------------------------------------- idempotence specification
\* One process updates hosts and benches, or connections: the operations act
\* on separate collections, so the hosts and benches are explored with no
\* connections stored and the connections with no hosts and benches stored.
NextIdem ==
    \/ (labs[1].connections = <<>> /\ RegUpdateHost)
    \/ (labs[1].connections = <<>> /\ RegUpdateBench)
    \/ (labs[1].hosts = <<>> /\ labs[1].benches = <<>> /\ NextConn)
SpecIdem == Init /\ [][NextIdem]_vars

\* ----------------------------------------------------- delete specification
\* One process inserts instruments of several names, connects one of them and
\* deletes instruments by name, names that are not registered included.
DelNames == {"i1", "i2", "i3"}
DelInstruments ==
    {Instrument(n, b, None, AllPorts) : n \in {"i1", "i2"}, b \in {None} \cup AllBenches}
DelConnections ==
    {c \in AllConnections :
        PortsValid(<<c>>) /\ \E item \in c : item[1] = Device("d1", None, {1})}

DelInsert == \E x \in DelInstruments : insertInstrument(1, x)
DelDevice == \E d \in AllDevices : insertDevice(1, d)
DelConnect == \E c \in DelConnections : updateConnections(1, <<c>>)
DelDelete == \E name \in DelNames : deleteInstrumentFromName(1, name)

NextDel == DelInsert \/ DelDevice \/ DelConnect \/ DelDelete
SpecDel == Init /\ [][NextDel]_vars

\* ================================================================== claims
EntryOf(list, name) == IF name \in Names(list) THEN list[IndexOf(list, name)] ELSE None
LocalNames(hosts) == {hosts[k].name : k \in {j \in 1..Len(hosts) : hosts[j].local}}
\* The name of the local host listed last, NoName when no host is local.
LastLocalName(hosts) ==
    LET ks == {k \in 1..Len(hosts) : hosts[k].local}
    IN IF ks = {} THEN NoName ELSE hosts[CHOOSE k \in ks : \A j \in ks : j <= k].name
NamesUnique(list) == Cardinality(Names(list)) = Len(list)
Elements(seq) == {seq[k] : k \in 1..Len(seq)}
\* The lab holds what the text holds, collection by collection.
SameContent(lab, file) == \A key \in CollectionKeys : lab[key] = DocValue(file, key)
SaveArgs == BOOLEAN \X Users \X Datetimes

\* C1: a save by any process overwrites an existing file only if the digest
\* stored in the file equals the digest the process recorded at its last load
\* or save; when the two differ the file is left as it was.
C1_OverwriteOnlyOnMatchingDigest ==
    \A i \in Insts : \A a \in SaveArgs :
        LET r == SaveStateResult(labs[i], disk, backup, a[1], a[2], a[3])
        IN (disk # NoFile /\ r.file # disk)
              => DocValue(disk, "__sha256__") = labs[i].sha

\* A save has overwritten the file of another process's save.
C1_Witness ==
    /\ last.op = "saveState"
    /\ "sha written" \in last.log /\ "first save" \notin last.log
    /\ \E i, j \in Insts :
          /\ labs[i].sha # None /\ labs[j].sha # None /\ labs[i].sha # labs[j].sha
          /\ labs[i].sha = DocValue(disk, "__sha256__")

\* C2: a save by a process whose recorded digest is no longer the digest of
\* the file, and whose content differs from the file's, ends in an error
\* raised to the caller, and nothing is written.
C2_ConflictingSaveRaises ==
    \A i \in Insts : \A a \in SaveArgs :
        LET r == SaveStateResult(labs[i], disk, backup, a[1], a[2], a[3])
        IN (/\ disk # NoFile
            /\ labs[i].sha # None
            /\ labs[i].sha # DocValue(disk, "__sha256__")
            /\ ~SameContent(labs[i], disk))
              => (r.outcome # "ok" /\ r.file = disk /\ r.backup = backup)

C4_AnyEditDetected ==
    last.op = "tamper"
        => LET r == LoadStateResult(disk, SharedPath, TRUE)
           IN r.outcome = "RuntimeError: corrupted" /\ r.lab = None

\* C4 (amended): an edit that touches the version or any of the collections is
\* detected; the user and the time of the save are outside the digest.
C4_ContentEditDetected ==
    (last.op = "tamper" /\ last.log \cap (CollectionKeys \cup {"__version__"}) # {})
        => LET r == LoadStateResult(disk, SharedPath, TRUE)
           IN r.outcome = "RuntimeError: corrupted" /\ r.lab = None

\* An edited file was refused by a load, the loader's lab left as it was.
C4_Witness ==
    /\ last.op = "loadState" /\ last.outcome = "RuntimeError: corrupted"
    /\ labs[2] = NewLabState
    /\ disk # NoFile
    /\ ~SameContent(labs[1], disk)

\* C5: an (entity, port) item is in at most one connection of the list.
C5_PortInAtMostOneConnection ==
    \A i \in Insts :
        LET conns == labs[i].connections
        IN \A k1, k2 \in 1..Len(conns) : k1 # k2 => conns[k1] \cap conns[k2] = {}

\* C6: a batch naming an undeclared port anywhere fails and leaves the lab,
\* its connection list included, as it was.
C6_InvalidPortAbortsBatch ==
    \A batch \in Batches(AllConnections) :
        (\E k \in DOMAIN batch : \E item \in batch[k] : item[2] \notin item[1].ports)
           => LET r == UpdateConnectionsResult(labs[1], batch)
              IN r.outcome # "ok" /\ r.lab = labs[1]

\* A batch was refused for its port while connections were stored.
C6_Witness ==
    /\ last.op = "updateConnections"
    /\ last.outcome = "RuntimeError: port not in ports"
    /\ Len(labs[1].connections) >= 2

\* C7: after a successful updateConnections every connection of the batch is
\* stored, every connection stored before that shares an item with the batch
\* (and is not itself a connection of the batch) is gone, every connection
\* stored before that shares no item with the batch is kept, and nothing else
\* of the lab has changed.
C7_ConnectionReplacement ==
    \A batch \in Batches(AllConnections) :
        LET r == UpdateConnectionsResult(labs[1], batch)
            old == Elements(labs[1].connections)
            new == Elements(r.lab.connections)
            given == Elements(batch)
            shares(x) == \E c \in given : x \cap c # {}
        IN r.outcome = "ok" =>
              /\ given \subseteq new
              /\ \A x \in old \ given : shares(x) => x \notin new
              /\ \A x \in old : ~shares(x) => x \in new
              /\ new \subseteq old \cup given
              /\ r.lab = [labs[1] EXCEPT !.connections = r.lab.connections]

\* A connection was retired by a new one while another was kept.
C7_Witness ==
    /\ last.op = "updateConnections" /\ last.outcome = "ok"
    /\ "deleting existing connection" \in last.log
    /\ Len(labs[1].connections) >= 2
    /\ C5_PortInAtMostOneConnection

\* C8: at most one host of the hosts collection is marked local.
C8_AtMostOneLocalHost ==
    \A i \in Insts :
        Cardinality({k \in 1..Len(labs[i].hosts) : labs[i].hosts[k].local}) <= 1

\* What the rejection of batch[k] means for the result r of the call on lab:
\* the call returns normally, the entry under the rejected host's name and the
\* entry of the local host L are what they were (unless another host of the
\* batch carries that name), the non-local hosts of the batch are stored, and
\* nothing but the hosts has changed.
C9_Rejected(lab, r, batch, k, L) ==
    LET x  == batch[k]
        others == DOMAIN batch \ {k}
    IN  /\ r.outcome = "ok"
        /\ (\A j \in others : batch[j].name # x.name)
              => EntryOf(r.lab.hosts, x.name) = EntryOf(lab.hosts, x.name)
        /\ (\A j \in others : batch[j].name # L)
              => EntryOf(r.lab.hosts, L) = EntryOf(lab.hosts, L)
        /\ \A j \in others :
              (~batch[j].local /\ \A m \in others : m > j => batch[m].name # batch[j].name)
                 => Contains(r.lab.hosts, batch[j])
        /\ r.lab = [lab EXCEPT !.hosts = r.lab.hosts]

\* C9 as stated: whenever the registry holds a local host named L, a local
\* host of another name in the batch of updateHost is rejected.
C9_AsStated ==
    \A batch \in Batches(AllHosts) : \A k \in DOMAIN batch :
        \A L \in LocalNames(labs[1].hosts) :
            (batch[k].local /\ batch[k].name # L)
               => C9_Rejected(labs[1], UpdateHostResult(labs[1], batch), batch, k, L)

\* C9 (amended): a local host of the batch whose name differs from the name L
\* of the last-listed local host is rejected, provided no earlier host of the
\* same batch overwrote L with a non-local host; the call returns normally and
\* the other hosts of the batch are processed.
C9_ClashingLocalHostRejected ==
    \A batch \in Batches(AllHosts) : \A k \in DOMAIN batch :
        LET L == LastLocalName(labs[1].hosts) IN
            (/\ L # NoName
             /\ batch[k].local /\ batch[k].name # L
             /\ \A j \in 1..(k - 1) : batch[j] # Host(L, FALSE))
               => C9_Rejected(labs[1], UpdateHostResult(labs[1], batch), batch, k, L)

\* A clash was warned about, a second host was stored by the same call, and
\* the local host is still the only one.
C9_Witness ==
    /\ last.op = "updateHost" /\ "localhost clash" \in last.log
    /\ Len(labs[1].hosts) = 2
    /\ Cardinality(LocalNames(labs[1].hosts)) = 1

\* C10: inserting an instrument (device) whose name is already in its
\* collection fails and changes nothing, the bench and host of the rejected
\* entity included; names stay unique in each of the four collections.
C10_DuplicateInsertRejected ==
    /\ \A i \in Insts :
          /\ NamesUnique(labs[i].instruments) /\ NamesUnique(labs[i].devices)
          /\ NamesUnique(labs[i].hosts) /\ NamesUnique(labs[i].benches)
    /\ \A x \in AllInstruments :
          x.name \in Names(labs[1].instruments)
             => LET r == InsertInstrumentResult(labs[1], x)
                IN r.outcome # "ok" /\ r.lab = labs[1]
    /\ \A d \in AllDevices :
          d.name \in Names(labs[1].devices)
             => LET r == InsertDeviceResult(labs[1], d)
                IN r.outcome # "ok" /\ r.lab = labs[1]

\* A duplicate instrument was rejected while no bench and no host is registered.
C10_Witness ==
    /\ last.op = "insertInstrument"
    /\ last.outcome = "RuntimeError: instrument exists"
    /\ Len(labs[1].instruments) = 1
    /\ labs[1].benches = <<>> /\ labs[1].hosts = <<>>

\* C11: deleteInstrumentFromName fails and changes nothing unless exactly one
\* registered instrument carries the name; when exactly one does, that
\* instrument and no other is removed, the order of the others is kept, and
\* hosts, benches, devices and connections are what they were.
C11_DeleteExactlyOne ==
    \A name \in DelNames :
        LET lab == labs[1]
            r == DeleteInstrumentResult(lab, name)
            matches == {k \in 1..Len(lab.instruments) : lab.instruments[k].name = name}
        IN  /\ Cardinality(matches) # 1 => (r.outcome # "ok" /\ r.lab = lab)
            /\ Cardinality(matches) = 1 =>
                  /\ r.outcome = "ok"
                  /\ r.lab.instruments = SelectSeq(lab.instruments, LAMBDA x : x.name # name)
                  /\ Len(r.lab.instruments) = Len(lab.instruments) - 1
                  /\ r.lab = [lab EXCEPT !.instruments = r.lab.instruments]

\* An instrument named in a stored connection was deleted while another
\* instrument, its bench, the device and the connection stayed.
C11_Witness ==
    /\ last.op = "deleteInstrumentFromName" /\ last.outcome = "ok"
    /\ Names(labs[1].instruments) = {"i2"}
    /\ labs[1].benches # <<>> /\ labs[1].devices # <<>>
    /\ \E k \in 1..Len(labs[1].connections) :
          \E item \in labs[1].connections[k] : item[1].name = "i1"

\* C12: a load of a document older than the current version either returns a
\* state at the current version or fails; it never returns the state at the
\* document's version.
C12_NoUnmigratedState ==
    \A validateHash \in BOOLEAN :
        (disk # NoFile /\ DocValue(disk, "__version__") < CurrentVersion)
           => LET r == LoadStateResult(disk, SharedPath, validateHash)
              IN r.outcome = "ok" => r.lab.version = CurrentVersion

\* The names of the entities nested under `field` in the records of a list.
NestedNames(list, field) ==
    UNION {Names(list[k][field]) : k \in 1..Len(list)}

\* C13: the load of a version-1 document (instruments and devices nested in
\* its bench records, instruments nested in its host records, the same name
\* possibly under several of them) succeeds at the current version; the
\* migrated state holds every nested instrument and device, and nothing else,
\* in its top-level collections under unique names, keeps the benches and the
\* hosts by name, and has exactly one host marked local.
C13_MigrationFlattens ==
    (/\ disk # NoFile
     /\ DocValue(disk, "__version__") = 1
     /\ HasNested(DocValue(disk, "benches"), "instruments")
     /\ HasNested(DocValue(disk, "benches"), "devices")
     /\ HasNested(DocValue(disk, "hosts"), "instruments"))
       => LET r == LoadStateResult(disk, SharedPath, TRUE)
              old_benches == DocValue(disk, "benches")
              old_hosts == DocValue(disk, "hosts")
          IN  /\ r.outcome = "ok"
              /\ r.lab.version = CurrentVersion
              /\ Names(r.lab.instruments) =
                    NestedNames(old_benches, "instruments") \cup NestedNames(old_hosts, "instruments")
              /\ Names(r.lab.devices) = NestedNames(old_benches, "devices")
              /\ NamesUnique(r.lab.instruments) /\ NamesUnique(r.lab.devices)
              /\ NamesUnique(r.lab.benches) /\ NamesUnique(r.lab.hosts)
              /\ Names(r.lab.benches) = Names(old_benches)
              /\ Names(r.lab.hosts) = Names(old_hosts) \cup {"cassander"}
              /\ Cardinality(LocalNames(r.lab.hosts)) = 1
              /\ \A k \in 1..Len(r.lab.benches) : r.lab.benches[k] = Bench(r.lab.benches[k].name)

\* A version-1 document with one instrument name under two benches and under
\* a host was loaded: the instrument is held once, next to the local host.
C13_Witness ==
    /\ last.op = "loadState" /\ last.outcome = "ok" /\ "older version" \in last.log
    /\ DocValue(disk, "__version__") = 1
    /\ Len(DocValue(disk, "benches")) = 2 /\ Len(DocValue(disk, "hosts")) = 1
    /\ \A k \in 1..2 : Names(DocValue(disk, "benches")[k].instruments) = {"i1"}
    /\ Names(DocValue(disk, "hosts")[1].instruments) = {"i1"}
    /\ Len(labs[1].instruments) = 1 /\ Len(labs[1].benches) = 2
    /\ LocalNames(labs[1].hosts) = {"cassander"}

\* C14: the load of a document whose version is greater than the current one
\* fails and returns no state; a document at the current version loads as it
\* is stored, nothing is logged about versions and no patch is run.
C14_VersionGate ==
    \A validateHash \in BOOLEAN :
        disk # NoFile =>
            LET r == LoadStateResult(disk, SharedPath, validateHash)
                version == DocValue(disk, "__version__")
            IN  /\ version > CurrentVersion
                      => (r.outcome = "RuntimeError: newer version" /\ r.lab = None)
                /\ version = CurrentVersion
                      => /\ r.outcome = "ok" /\ r.log = {}
                         /\ r.lab.version = CurrentVersion
                         /\ r.lab.sha = DocValue(disk, "__sha256__")
                         /\ r.lab.filename = SharedPath
                         /\ \A key \in CollectionKeys \cap {disk[n][1] : n \in 1..Len(disk)} :
                               r.lab[key] = DocValue(disk, key)

\* A document one version past the current one was refused; the process keeps
\* the lab it had.
C14_Witness ==
    /\ last.op = "loadState" /\ last.outcome = "RuntimeError: newer version"
    /\ DocValue(disk, "__version__") = CurrentVersion + 1
    /\ \E n \in 1..Len(disk) : disk[n][1] = "instruments" /\ disk[n][2] # <<>>
    /\ labs[1] = NewLabState

\* C15: importing the module loads nothing; the first access to `lab` makes
\* exactly one load attempt from the default path and, when the file is
\* missing or does not parse, the handle becomes a new empty LabState; every
\* later access returns the handle as it is and loads nothing.
C15_DeferredLoader ==
    \A i \in Insts :
        LET r == AccessResult(sneaky[i], labs[i], disk)
            load == LoadStateResult(disk, DefaultPath, TRUE)
        IN  /\ sneaky[i].loads <= 1
            /\ sneaky[i].initializing <=> sneaky[i].loads = 0
            /\ sneaky[i].initializing =>
                  /\ labs[i] = None
                  /\ r.sneaky.loads = 1 /\ ~r.sneaky.initializing
                  /\ load.outcome \in CaughtByInit
                        => (r.outcome = "ok" /\ r.lab = NewLabState)
                  /\ load.outcome = "ok" => (r.outcome = "ok" /\ r.lab = load.lab)
            /\ ~sneaky[i].initializing =>
                  /\ r.sneaky = sneaky[i]
                  /\ r.lab = labs[i]
                  /\ r.outcome = "ok"

\* Both processes made their one load; a process accessed `lab` again after
\* the file had been written by a save, and kept a handle the file differs from.
C15_Witness ==
    /\ last.op = "lab" /\ last.outcome = "ok" /\ last.log = {}
    /\ \A i \in Insts : sneaky[i].loads = 1
    /\ labs[1] # None /\ labs[2] # None
    /\ disk # NoFile /\ disk # Garbage
    /\ \E i \in Insts : ~SameContent(labs[i], disk)

\* C16: a save that finds a file whose loaded state equals the state in memory
\* returns normally and writes nothing: the file is what it was and no backup
\* is made, whether or not a backup was asked for.
C16_EqualStateNoWrite ==
    \A i \in Insts : \A a \in SaveArgs :
        LET loaded == LoadStateResult(disk, SharedPath, TRUE)
            r == SaveStateResult(labs[i], disk, backup, a[1], a[2], a[3])
        IN (/\ disk # NoFile /\ loaded.outcome = "ok"
            /\ \A key \in CollectionKeys : loaded.lab[key] = labs[i][key])
              => /\ r.outcome = "ok"
                 /\ r.file = disk /\ r.backup = backup
                 /\ Flatten(r.lab) = Flatten(labs[i])

\* A process whose lab equals the file another process wrote has saved: it
\* found no changes, and the file still carries the other process's name.
C16_Witness ==
    /\ last.op = "saveState" /\ last.outcome = "ok" /\ "no changes" \in last.log
    /\ disk # NoFile
    /\ DocValue(disk, "instruments") # <<>>
    /\ \E i \in Insts :
          /\ UserOf(i) # DocValue(disk, "__user__")
          /\ SameContent(labs[i], disk)
          /\ labs[i].sha = DocValue(disk, "__sha256__")
          /\ labs[i].filename = DefaultPath

\* C17: when no file exists, a save writes the state of the instance without
\* comparing digests and without a backup, whether or not the instance has a
\* recorded digest and whether or not a backup was asked for; afterwards the
\* file exists, holds the state of the instance, carries the digest the
\* instance now records, and loads with the hash verified.
C17_FirstSaveWrites ==
    \A i \in Insts : \A a \in SaveArgs :
        disk = NoFile =>
            LET r == SaveStateResult(labs[i], disk, backup, a[1], a[2], a[3])
            IN  /\ r.outcome = "ok"
                /\ r.file # NoFile
                /\ SameContent(labs[i], r.file)
                /\ r.backup = backup
                /\ Flatten(r.lab) = Flatten(labs[i])
                /\ r.lab.sha = DocValue(r.file, "__sha256__")
                /\ LoadStateResult(r.file, SharedPath, TRUE).outcome = "ok"

\* A first save was made where a file had been before: another process still
\* records the digest of the file that is gone.
C17_Witness ==
    /\ last.op = "saveState" /\ last.outcome = "ok" /\ "first save" \in last.log
    /\ backup = NoFile
    /\ DocValue(disk, "instruments") # <<>>
    /\ \A i \in Insts : labs[i].sha # None
    /\ \E i \in Insts : labs[i].sha # DocValue(disk, "__sha256__")

\* C18 as stated: whenever a save with the backup enabled overwrites the
\* file, the backup holds what the file held right before the overwrite.
C18_BackupIsTargetBeforeOverwrite ==
    [][(saving.pc = "open" /\ saving.save_backup /\ saving'.pc = "write")
          => backup = disk]_vars

\* C18 (amended): the copy to the backup is complete before the save modifies
\* the file, and the backup holds what the file held right before the
\* overwrite provided no call of another process came between the copy and
\* the overwrite.
C18_BackupBeforeOverwrite ==
    [][(saving.pc = "open" /\ saving.save_backup /\ saving'.pc = "write")
          => /\ backup # NoFile /\ backup # Truncated
             /\ (last.op = "_saveState" /\ last.outcome = "copy") => backup = disk]_vars

\* The file is open for writing, emptied, and the backup holds the document
\* process 2 wrote, whose digest process 2 still records.
C18_Witness ==
    /\ saving.pc = "write" /\ saving.save_backup
    /\ disk = Truncated
    /\ backup # NoFile
    /\ DocValue(backup, "__user__") = UserOf(2)
    /\ DocValue(backup, "instruments") # <<>>
    /\ labs[2].sha = DocValue(backup, "__sha256__")

\* The content digest of a lab: the digest __toJSON puts in the document.
Digest(lab) == ToJSON(lab, "alice", "monday")["__sha256__"]

\* C19: two states that hold the same entities and the same connections, put
\* in in different orders, have the same content digest.
C19_DigestIgnoresOrder ==
    \A i, j \in Insts :
        (\A key \in CollectionKeys :
            /\ Len(labs[i][key]) = Len(labs[j][key])
            /\ Elements(labs[i][key]) = Elements(labs[j][key]))
           => Digest(labs[i]) = Digest(labs[j])

\* The second application of updateHost, updateBench or updateConnections to
\* the same batch ends as the first did and leaves the lab as the first left it.
HostsTwice(lab, batch) ==
    LET r1 == UpdateHostResult(lab, batch) IN
    [first |-> r1, second |-> UpdateHostResult(r1.lab, batch)]
SameTwice(t) == t.second.lab = t.first.lab /\ t.second.outcome = t.first.outcome
BenchesIdempotent(lab) ==
    \A batch \in Batches(AllBenches) :
        LET r1 == UpdateBenchResult(lab, batch) IN
        SameTwice([first |-> r1, second |-> UpdateBenchResult(r1.lab, batch)])
ConnectionsIdempotent(lab) ==
    \A batch \in Batches(AllConnections) :
        LET r1 == UpdateConnectionsResult(lab, batch) IN
        SameTwice([first |-> r1, second |-> UpdateConnectionsResult(r1.lab, batch)])

\* C20 as stated: from any reachable registry, applying the same batch of
\* updateHost, updateBench or updateConnections twice in a row leaves the
\* registry as applying it once.
C20_Idempotent ==
    /\ \A batch \in Batches(AllHosts) : SameTwice(HostsTwice(labs[1], batch))
    /\ BenchesIdempotent(labs[1])
    /\ ConnectionsIdempotent(labs[1])

\* C20 (amended): updateBench and updateConnections are idempotent; updateHost
\* is idempotent on every batch whose local hosts, together with the local
\* hosts already registered, carry at most one name.
C20_IdempotentUnlessClash ==
    /\ \A batch \in Batches(AllHosts) :
          Cardinality(LocalNames(labs[1].hosts) \cup LocalNames(batch)) <= 1
             => SameTwice(HostsTwice(labs[1], batch))
    /\ BenchesIdempotent(labs[1])
    /\ ConnectionsIdempotent(labs[1])

\* The stored connections are what a batch of two connections left, one of
\* them having retired an older connection, and the batch applied again
\* leaves them as they are.
C20_Witness ==
    /\ last.op = "updateConnections" /\ last.outcome = "ok"
    /\ "deleting existing connection" \in last.log
    /\ Len(labs[1].connections) >= 3
    /\ \E batch \in Batches(AllConnections) :
          /\ Len(batch) = 2 /\ batch[1] # batch[2]
          /\ Elements(batch) \subseteq Elements(labs[1].connections)
          /\ UpdateConnectionsResult(labs[1], batch).lab = labs[1]

\* How many entries of the list equal x.
Count(list, x) == Cardinality({k \in 1..Len(list) : list[k] = x})

\* C21: after a successful insertInstrument the bench and the host of the
\* instrument, when it has them, are members of benches and hosts; after a
\* successful insertDevice the bench of the device, when it has one, is a
\* member of benches; a bench or host that was registered before the call is
\* listed once and its collection is what it was.
C21_AutoRegistered ==
    /\ \A x \in AllInstruments :
          LET r == InsertInstrumentResult(labs[1], x) IN
          r.outcome = "ok" =>
             /\ x.bench # None => Count(r.lab.benches, x.bench) = 1
             /\ x.host # None => Count(r.lab.hosts, x.host) = 1
             /\ (x.bench = None \/ Contains(labs[1].benches, x.bench))
                    => r.lab.benches = labs[1].benches
             /\ (x.host = None \/ Contains(labs[1].hosts, x.host))
                    => r.lab.hosts = labs[1].hosts
    /\ \A d \in AllDevices :
          LET r == InsertDeviceResult(labs[1], d) IN
          r.outcome = "ok" =>
             /\ d.bench # None => Count(r.lab.benches, d.bench) = 1
             /\ (d.bench = None \/ Contains(labs[1].benches, d.bench))
                    => r.lab.benches = labs[1].benches
             /\ r.lab.hosts = labs[1].hosts

\* An instrument brought its bench and its host into the registry, and the
\* device inserted after it found that bench registered and added nothing.
C21_Witness ==
    /\ last.op = "insertDevice" /\ last.outcome = "ok" /\ last.log = {}
    /\ Len(labs[1].devices) = 1 /\ labs[1].devices[1].bench # None
    /\ Len(labs[1].instruments) = 1
    /\ labs[1].instruments[1].bench = labs[1].devices[1].bench
    /\ labs[1].instruments[1].host # None
    /\ labs[1].benches = <<labs[1].instruments[1].bench>>
    /\ labs[1].hosts = <<labs[1].instruments[1].host>>

\* C22 as stated: the fixed path is the default path when it can be read and
\* written; when it cannot be read or cannot be written the default path is
\* the local relative path and the import logged a warning.
C22_FallbackWhenUnreadableOrUnwritable ==
    \A i \in Insts :
        module[i] # NotImported =>
            LET fs == module[i].fixed
                usable == fs.kind = "file" /\ fs.readable /\ fs.writable
            IN /\ usable => module[i].filename = FixedPath
               /\ ~usable => /\ module[i].filename = DefaultPath
                             /\ ResolveFilename(fs).log # {}

\* C23: a save that writes leaves the recorded digest of the instance equal
\* to the digest stored in the document it wrote; and while process 1 is the
\* only writer of the path, a save of process 1 never meets a conflict: from
\* every reachable state it ends normally, without the mismatch message, and
\* when the registry differs from the file it writes the registry to the file.
C23_SoleWriterNeverConflicts ==
    \A args \in SaveArgs :
        LET r == SaveStateResult(labs[1], disk, backup, args[1], args[2], args[3]) IN
        /\ r.outcome = "ok"
        /\ "hash mismatch, aborting save" \notin r.log
        /\ "sha written" \in r.log
              => /\ r.lab.sha = DocValue(r.file, "__sha256__")
                 /\ SameContent(labs[1], r.file)
        /\ (disk = NoFile \/ ~SameContent(labs[1], disk)) => "sha written" \in r.log

\* Process 1 has overwritten a file it had written itself: the backup holds
\* its earlier document, the file its registry as it is now, and its recorded
\* digest is the one in the file.
C23_Witness ==
    /\ last.op = "saveState" /\ last.outcome = "ok"
    /\ {"sha written", "backup"} \subseteq last.log
    /\ backup # NoFile /\ disk # NoFile /\ backup # disk
    /\ ~SameContent(labs[1], backup)
    /\ SameContent(labs[1], disk)
    /\ labs[1].sha = DocValue(disk, "__sha256__")

\* C24 as stated: every successful load of the file at a path returns a state
\* whose recorded digest is the digest stored in the document and whose file
\* path is that path, whether or not the load ran a migration.
C24_LoadRecordsDigestAndPath ==
    \A validateHash \in BOOLEAN :
        disk # NoFile =>
            LET r == LoadStateResult(disk, SharedPath, validateHash) IN
            r.outcome = "ok" => /\ r.lab.sha = DocValue(disk, "__sha256__")
                                /\ r.lab.filename = SharedPath

\* C25: once saveState of process 1 has passed its comparison of digests,
\* nothing looks at the file again: the copy, the opening and the write follow
\* whatever another process has written meanwhile, the file ends as the document
\* of process 1 and the save returns without a message of conflict.
C25_NothingCheckedAfterTheCheck ==
    [][/\ (saving.pc = "copy" /\ saving' # saving)
             => (saving'.pc = "open" /\ disk' = disk)
       /\ (saving.pc = "open" /\ saving' # saving)
             => (saving'.pc = "write" /\ disk' = Truncated)
       /\ (saving.pc = "write" /\ saving' # saving)
             => /\ saving' = Idle
                /\ SameContent(labs[1], disk')
                /\ DocValue(disk', "__user__") = UserOf(1)
                /\ last' = Call("saveState", "ok", {"sha written"})]_vars

\* Process 1 has saved over a document of process 2 that it never saw: it never
\* held an instrument, so its comparison passed on an older file; the document
\* with the instrument, written by process 2 without a conflict, was on the
\* file when process 1 made its backup copy and is now only in the backup.
C25_Witness ==
    /\ saving = Idle /\ last = Call("saveState", "ok", {"sha written"})
    /\ disk # NoFile /\ disk # Truncated
    /\ DocValue(disk, "__user__") = UserOf(1)
    /\ SameContent(labs[1], disk)
    /\ labs[1].sha = DocValue(disk, "__sha256__")
    /\ labs[1].instruments = <<>>
    /\ backup # NoFile
    /\ DocValue(backup, "__user__") = UserOf(2)
    /\ DocValue(backup, "instruments") # <<>>
    /\ labs[2].sha = DocValue(backup, "__sha256__")

\* The host of that name met last in the batch from position k on.
LastNamed(batch, k, name) ==
    batch[CHOOSE j \in k..Len(batch) :
             /\ batch[j].name = name
             /\ \A m \in k..Len(batch) : batch[m].name = name => m <= j]

\* C26: when the registry holds exactly one local host and a batch of
\* updateHost carries a host of its name that is not local, the call ends
\* normally, every host of the batch from that one on is stored, local hosts
\* included, and when none of them is local the registry ends without a
\* local host.
C26_DemotionProceeds ==
    \A batch \in Batches(AllHosts) :
        LET hosts == labs[1].hosts
            locals == {j \in 1..Len(hosts) : isLocalHost(hosts[j])}
            demoting == {k \in 1..Len(batch) :
                            /\ ~isLocalHost(batch[k])
                            /\ batch[k].name \in LocalNames(hosts)}
        IN (Cardinality(locals) = 1 /\ demoting # {}) =>
              LET k == CHOOSE k \in demoting : \A m \in demoting : k <= m
                  r == UpdateHostResult(labs[1], batch)
              IN /\ r.outcome = "ok"
                 /\ \A j \in k..Len(batch) :
                       EntryOf(r.lab.hosts, batch[j].name) = LastNamed(batch, k, batch[j].name)
                 /\ (\A j \in k..Len(batch) : ~isLocalHost(batch[j]))
                       => LocalNames(r.lab.hosts) = {}

\* The registry holds its only local host, registered by the last call, and
\* the batch that overwrites it by a plain host of its name and then brings a
\* local host of another name leaves the first plain and the second local.
C26_Witness ==
    /\ last.op = "updateHost" /\ last.outcome = "ok" /\ last.log = {}
    /\ labs[1].hosts = <<Host("h1", TRUE)>>
    /\ UpdateHostResult(labs[1], <<Host("h1", FALSE), Host("h2", TRUE)>>).lab.hosts
          = <<Host("h1", FALSE), Host("h2", TRUE)>>

\* The versions from v up to the one before the current version, ascending.
StepsFrom(v) == [n \in 1..(CurrentVersion - v) |-> v + n - 1]

\* C27 as stated: the load of a sound document at a version v below the
\* current version N calls the migration step for v, v+1, ..., N-1, in that
\* order.
C27_EveryStepAttempted ==
    \A validateHash \in BOOLEAN :
        LET r == LoadStateResult(disk, SharedPath, validateHash) IN
        (disk # NoFile /\ r.outcome # "RuntimeError: corrupted"
             /\ DocValue(disk, "__version__") < CurrentVersion)
           => r.steps = StepsFrom(DocValue(disk, "__version__"))

\* C27 (amended): the load of a sound document at version v calls the
\* migration steps in ascending order from v, none outside v..N-1, and stops
\* at the first step that raises: when that step is missing the load returns
\* normally and logs it, the later steps not being called; a document at
\* version N or above has no step called.
C27_StepsAscendUntilOneRaises ==
    \A validateHash \in BOOLEAN :
        LET r == LoadStateResult(disk, SharedPath, validateHash) IN
        (disk # NoFile /\ r.outcome # "RuntimeError: corrupted") =>
            LET v == DocValue(disk, "__version__")
                all == StepsFrom(v)
                n == Len(r.steps)
            IN IF v >= CurrentVersion THEN r.steps = <<>>
               ELSE /\ n \in 1..Len(all)
                    /\ r.steps = SubSeq(all, 1, n)
                    /\ n < Len(all) => (r.outcome # "ok" \/ "patch not found" \in r.log)
                    /\ (r.outcome = "ok" /\ "patch not found" \notin r.log)
                          => (n = Len(all) /\ r.lab.version = CurrentVersion)
                    /\ PatchLabstate(v, NewLabState).outcome = "NotImplementedError"
                          => /\ r.steps = <<v>>
                             /\ r.outcome = "ok" /\ "patch not found" \in r.log
                             /\ r.lab.version = v

\* A document two versions behind was loaded: the step for its version was
\* called and not found, the step after it was not called, and the process
\* holds the state at the document's version.
C27_Witness ==
    /\ last.op = "loadState" /\ last.outcome = "ok" /\ "patch not found" \in last.log
    /\ disk # NoFile /\ DocValue(disk, "__version__") = CurrentVersion - 2
    /\ LoadStateResult(disk, SharedPath, TRUE).steps = <<CurrentVersion - 2>>
    /\ labs[1].version = CurrentVersion - 2

\* C28 as stated: when the first load of the deferred loader raises an
\* integrity or version error, the first access to `lab` raises it, and no
\* later access returns normally with an unset or empty state in its place.
C28_FailedLoadNeverYieldsHandle ==
    \A i \in Insts :
        LET r == AccessResult(sneaky[i], labs[i], disk)
            load == LoadStateResult(disk, DefaultPath, TRUE)
        IN  /\ (sneaky[i].initializing
                   /\ load.outcome \in {"RuntimeError: corrupted", "RuntimeError: newer version"})
                  => (r.outcome = load.outcome /\ r.lab = None)
            /\ (~sneaky[i].initializing /\ labs[i] = None) => r.outcome # "ok"

\* C29: a save by an instance without a recorded digest writes only when no
\* file exists; on an existing file it changes neither the file nor the backup
\* nor the registry, records the digest of its own state, does nothing more
\* when the file holds an equal state and gives up with the mismatch message
\* when the file holds another state.
C29_FreshStateNeverOverwrites ==
    \A i \in Insts : \A a \in SaveArgs :
        labs[i].sha = None =>
            LET r == SaveStateResult(labs[i], disk, backup, a[1], a[2], a[3]) IN
            /\ "sha written" \in r.log <=> disk = NoFile
            /\ disk # NoFile =>
                  /\ r.file = disk /\ r.backup = backup
                  /\ Flatten(r.lab) = Flatten(labs[i])
                  /\ r.outcome = "ok"
                  /\ r.lab.sha = ToJSON(labs[i], a[2], a[3])["__sha256__"]
                  /\ IF SameContent(labs[i], disk)
                     THEN "no changes" \in r.log
                     ELSE "hash mismatch, aborting save" \in r.log

\* Process 2 has built a registry with a bench and never loaded or saved; the
\* file, written by process 1, holds an instrument and no bench; a save of
\* process 2 leaves the file as it is.
C29_Witness ==
    /\ labs[2].sha = None /\ labs[2].benches # <<>>
    /\ disk # NoFile
    /\ DocValue(disk, "__user__") = UserOf(1)
    /\ DocValue(disk, "instruments") # <<>> /\ DocValue(disk, "benches") = <<>>
    /\ LET r == SaveStateResult(labs[2], disk, backup, TRUE, UserOf(2), "monday")
       IN r.file = disk /\ "hash mismatch, aborting save" \in r.log

\* C30: the channels of the state are at all times the channels given at
\* construction; setChannelTuning with a dict naming a channel outside them
\* fails with ChannelError and leaves every value as it was, with a dict
\* inside them it sets the values it names and no other; off ends normally
\* and leaves every channel at 0.
C30_ChannelsFixed ==
    source # None =>
        /\ DOMAIN source.stateDict = source.useChans
        /\ \A d \in ChanValDicts :
              LET r == SetChannelTuningResult(source.stateDict,
                                              [isDict |-> TRUE, items |-> d])
              IN IF DOMAIN d \subseteq source.useChans
                 THEN /\ r.outcome = "ok"
                      /\ DOMAIN r.stateDict = source.useChans
                      /\ \A ch \in source.useChans :
                            r.stateDict[ch] = IF ch \in DOMAIN d THEN d[ch]
                                              ELSE source.stateDict[ch]
                 ELSE r.outcome = "ChannelError" /\ r.stateDict = source.stateDict
        /\ LET o == OffResult(source.stateDict)
           IN /\ o.outcome = "ok"
              /\ o.stateDict = [ch \in source.useChans |-> 0]

\* A source on some but not all channels, tuned away from 0, has refused a
\* dict naming a channel outside its own.
C30_Witness ==
    /\ source # None
    /\ last = Call("setChannelTuning", "ChannelError", {})
    /\ source.useChans # {} /\ source.useChans # ChanPool
    /\ \A ch \in source.useChans : source.stateDict[ch] # 0

====
